---- MODULE Spec2Model ----
(***************************************************************************)
(* Conversation reconstruction of find_conversations.py: the winning-path  *)
(* resolver (find_winning_path), the turn aggregation and enrichment of    *)
(* parse_conversation and the keyword search over the resulting turns.     *)
(*                                                                         *)
(* A log is a sequence of records. Ids are naturals (0 = absent), texts    *)
(* are sequences of tokens (the whitespace tokens "sp" and "nl", the three *)
(* boilerplate markers, and words), timestamps are the rank of the         *)
(* timestamp string in lexicographic order.                                *)
(***************************************************************************)
EXTENDS Integers, Sequences, FiniteSets, TLC

\* Longest log, in records.
MaxLen == 3
\* The capture threshold of a Write invocation's content, in lines.
WriteMaxLines == 200

\* An absent id (Python: None, a missing key, or the empty string).
None == 0
\* A parent id that no record carries.
Dangling == MaxLen + 1

(***************************************************************************)
(* Texts                                                                   *)
(***************************************************************************)
Whitespace == {"sp", "nl"}

RECURSIVE lstrip(_)
lstrip(t) ==
  IF t # <<>> /\ Head(t) \in Whitespace THEN lstrip(Tail(t)) ELSE t

RECURSIVE rstrip(_)
rstrip(t) ==
  IF t # <<>> /\ t[Len(t)] \in Whitespace
  THEN rstrip(SubSeq(t, 1, Len(t) - 1))
  ELSE t

strip(t) == rstrip(lstrip(t))

is_meaningful_always(text) == TRUE

is_meaningful(text) ==
  LET s == strip(text) IN
    IF s = <<>> THEN FALSE
    ELSE IF Head(s) = "<command-name>" THEN FALSE
    ELSE IF Head(s) = "<local-command-stdout>" THEN FALSE
    ELSE IF Head(s) = "[Request interrupted" THEN FALSE
    ELSE TRUE

\* '\n\n'.join(ts)
RECURSIVE JoinNN(_)
JoinNN(ts) ==
  IF ts = <<>> THEN <<>>
  ELSE IF Len(ts) = 1 THEN ts[1]
  ELSE ts[1] \o <<"nl", "nl">> \o JoinNN(Tail(ts))

\* '; '.join(ts)
RECURSIVE JoinSemi(_)
JoinSemi(ts) ==
  IF ts = <<>> THEN <<>>
  ELSE IF Len(ts) = 1 THEN ts[1]
  ELSE ts[1] \o <<";", "sp">> \o JoinSemi(Tail(ts))

\* shorten_path: a leading home directory becomes "~".
shorten_path(p) ==
  IF p = <<>> THEN <<>>
  ELSE IF Head(p) = "HOME" THEN <<"~">> \o Tail(p)
  ELSE p

(***************************************************************************)
(* Records                                                                 *)
(***************************************************************************)
\* The content of a tool_result, by the features parse_ask_answer reads.
NoRes ==
  [isText |-> FALSE, hdr |-> FALSE, pairs |-> <<>>, declined |-> FALSE,
   said |-> FALSE, after |-> <<>>]

ResAnswered(pairs) == [NoRes EXCEPT !.isText = TRUE, !.hdr = TRUE, !.pairs = pairs]
ResDeclined(said, after) ==
  [NoRes EXCEPT !.isText = TRUE, !.declined = TRUE, !.said = said, !.after = after]
ResOther == [NoRes EXCEPT !.isText = TRUE]

NoPart ==
  [type |-> "", text |-> <<>>, name |-> "", id |-> None, path |-> <<>>,
   chars |-> 0, nl |-> 0, res |-> NoRes]

TextPart(t) == [NoPart EXCEPT !.type = "text", !.text = t]
Thinking == [NoPart EXCEPT !.type = "thinking"]
ToolUse(name, id, path) ==
  [NoPart EXCEPT !.type = "tool_use", !.name = name, !.id = id, !.path = path]
\* A Write invocation whose content has `chars` characters, `nl` of them newlines.
WriteUse(id, path, chars, nl) ==
  [ToolUse("Write", id, path) EXCEPT !.chars = chars, !.nl = nl]
ToolResult(id, res) == [NoPart EXCEPT !.type = "tool_result", !.id = id, !.res = res]

NoContent == [kind |-> "none", text |-> <<>>, parts |-> <<>>]
Str(t) == [kind |-> "str", text |-> t, parts |-> <<>>]
List(ps) == [kind |-> "list", text |-> <<>>, parts |-> ps]

\* Python truthiness of message.content.
Truthy(c) ==
  \/ c.kind = "str" /\ c.text # <<>>
  \/ c.kind = "list" /\ c.parts # <<>>

\* A payload: what a record holds besides its place in the tree.
Payload(msg, meta, role, req, content) ==
  [msg |-> msg, meta |-> meta, role |-> role, req |-> req, content |-> content]

\* A line of the file that json.loads turns into an object: a record. `sid` is
\* its sessionId ("absent": the key is not there).
Rec(uuid, parent, ts, p) ==
  [json |-> "object", sid |-> "absent",
   uuid |-> uuid, parent |-> parent, ts |-> ts, msg |-> p.msg, meta |-> p.meta,
   role |-> p.role, req |-> p.req, content |-> p.content]

\* The other lines of a file, by what json.loads makes of them: "malformed"
\* raises JSONDecodeError (a blank line does), "scalar" is a number, a boolean
\* or null, "array" is a list.
OtherLine(json) ==
  [Rec(None, None, 0, Payload("absent", FALSE, "", "", NoContent))
     EXCEPT !.json = json]

(***************************************************************************)
(* The loader of parse_conversation                                        *)
(***************************************************************************)
\* `'sessionId' in record` of line 206 raises TypeError on a scalar; the handler
\* of lines 217-218 returns None.
load_fails(file) == \E k \in DOMAIN file : file[k].json = "scalar"

\* all_records, lines 201-216: a line that raises JSONDecodeError is skipped.
all_records(file) ==
  LET Loaded(l) == l.json # "malformed" IN SelectSeq(file, Loaded)

\* The running session_id of lines 206-207: the value of the last record that
\* has the key ("absent": None).
RECURSIVE session_id_of(_)
session_id_of(recs) ==
  IF recs = <<>> THEN "absent"
  ELSE LET r == recs[Len(recs)] IN
         IF r.json = "object" /\ r.sid # "absent" THEN r.sid
         ELSE session_id_of(SubSeq(recs, 1, Len(recs) - 1))

\* The running last_timestamp of lines 210-211 (None: no record has one).
RECURSIVE last_timestamp_of(_)
last_timestamp_of(recs) ==
  IF recs = <<>> THEN None
  ELSE LET r == recs[Len(recs)] IN
         IF r.json = "object" THEN r.ts
         ELSE last_timestamp_of(SubSeq(recs, 1, Len(recs) - 1))

\* conv['session_id'] of line 417; "stem" stands for jsonl_path.stem.
conv_session_id(session_id) ==
  IF session_id \in {"absent", ""} THEN "stem" ELSE session_id

(***************************************************************************)
(* find_winning_path                                                       *)
(***************************************************************************)
Indices(log) == 1..Len(log)

\* by_uuid: the dict comprehension keeps, for each id, the last record carrying it.
by_uuid(log, u) ==
  LET S == {i \in Indices(log) : log[i].uuid # None /\ log[i].uuid = u} IN
    IF S = {} THEN None ELSE CHOOSE i \in S : \A j \in S : j <= i

ParentOf_missing(log, u) == None

\* rec.get('parentUuid') of the record indexed under u.
ParentOf(log, u) == log[by_uuid(log, u)].parent

NoUuid(log) == \A i \in Indices(log) : log[i].uuid = None

parent_uuids(log) == {log[i].parent : i \in Indices(log)} \ {None}

IsTerminal(log, i) == log[i].uuid # None /\ log[i].uuid \notin parent_uuids(log)

RECURSIVE IndicesFrom(_, _)
IndicesFrom(i, n) == IF i > n THEN <<>> ELSE <<i>> \o IndicesFrom(i + 1, n)

\* terminals, as indices into the log, in input order.
Terminals(log) ==
  LET Term(i) == IsTerminal(log, i) IN SelectSeq(IndicesFrom(1, Len(log)), Term)

\* list.sort(key=timestamp): a stable sort, equal keys keep their input order.
RECURSIVE InsertByTs(_, _, _)
InsertByTs(log, s, x) ==
  IF s = <<>> THEN <<x>>
  ELSE IF log[s[Len(s)]].ts <= log[x].ts THEN Append(s, x)
  ELSE Append(InsertByTs(log, SubSeq(s, 1, Len(s) - 1), x), s[Len(s)])

RECURSIVE SortByTs(_, _)
SortByTs(log, s) ==
  IF s = <<>> THEN <<>>
  ELSE InsertByTs(log, SortByTs(log, SubSeq(s, 1, Len(s) - 1)), s[Len(s)])

latest_terminal_unsorted(log) ==
  LET t == Terminals(log) IN t[Len(t)]

\* terminals[-1] after the sort.
latest_terminal(log) ==
  LET t == SortByTs(log, Terminals(log)) IN t[Len(t)]

(***************************************************************************)
(* parse_conversation: the filter to the winning path                      *)
(***************************************************************************)
\* Lines 229-235: whether record i goes into raw_records.
KeepRecord_strict(log, i, found, win) ==
  /\ log[i].msg # "absent" /\ ~log[i].meta
  /\ (log[i].uuid = None \/ log[i].uuid \in win)

KeepRecord(log, i, found, win) ==
  IF log[i].msg = "absent" \/ log[i].meta THEN FALSE
  ELSE IF found /\ win # {} /\ log[i].uuid # None
       THEN log[i].uuid \in win
       ELSE TRUE

raw_records(log, found, win) ==
  LET Keep(i) == KeepRecord(log, i, found, win) IN
    SelectSeq(IndicesFrom(1, Len(log)), Keep)

\* record['message'] is null: msg.get raises AttributeError in phase 1.
Raises(log, raw) == \E k \in DOMAIN raw : log[raw[k]].msg = "null"

\* The parts of the records `recs`, in order, each with its record's index. A
\* string content counts as one text part.
RECURSIVE FlatItems(_, _)
FlatItems(log, recs) ==
  IF recs = <<>> THEN <<>>
  ELSE LET i == Head(recs)
           c == log[i].content
           here == IF c.kind = "str" THEN << <<i, TextPart(c.text)>> >>
                   ELSE [k \in DOMAIN c.parts |-> <<i, c.parts[k]>>]
       IN here \o FlatItems(log, Tail(recs))

RECURSIVE ListItems(_, _)
ListItems(log, recs) ==
  IF recs = <<>> THEN <<>>
  ELSE LET i == Head(recs)
           c == log[i].content
           here == IF c.kind = "list"
                   THEN [k \in DOMAIN c.parts |-> <<i, c.parts[k]>>]
                   ELSE <<>>
       IN here \o ListItems(log, Tail(recs))

(***************************************************************************)
(* Phase 1: AskUserQuestion invocations and their answers                  *)
(***************************************************************************)
ToolIds == 1..2

NullAnswer == [null |-> TRUE, val |-> <<>>, src |-> 0]
Answer(text) == [null |-> FALSE, val |-> text, src |-> 0]

\* The two boilerplate markers that end what the user said.
SaidMarkers == {"Questions asked:", "This means"}

\* after[:end_idx] for the first marker found at an index > 0, marker by marker.
CutAt(after, marker) ==
  LET S == {k \in DOMAIN after : after[k] = marker} IN
    IF S = {} THEN after
    ELSE LET k == CHOOSE x \in S : \A y \in S : x <= y IN
           IF k > 1 THEN strip(SubSeq(after, 1, k - 1)) ELSE after

parse_ask_answer_text(res) ==
  IF ~res.isText THEN NullAnswer ELSE Answer(<<"raw">>)

parse_ask_answer(res) ==
  IF ~res.isText THEN NullAnswer
  ELSE IF res.hdr /\ res.pairs # <<>>
  THEN Answer(JoinSemi([k \in DOMAIN res.pairs |-> strip(res.pairs[k])]))
  ELSE IF res.declined
  THEN IF res.said
       THEN LET a0 == strip(res.after)
                a1 == CutAt(a0, "Questions asked:")
                a2 == CutAt(a1, "This means")
            IN IF a2 # <<>>
                  /\ \A k \in DOMAIN a2 : a2[k] # "user wants to clarify these questions"
               THEN Answer(a2)
               ELSE Answer(<<"[User requested clarification]">>)
       ELSE Answer(<<"[User requested clarification]">>)
  ELSE NullAnswer

NoAnswers == [id \in ToolIds |-> [present |-> FALSE, ans |-> NullAnswer]]

\* The loop of lines 244-258 over the (record, part) pairs of raw_records.
RECURSIVE Phase1(_, _, _)
Phase1(items, qs, ans) ==
  IF items = <<>> THEN [ask_questions |-> qs, ask_answers |-> ans]
  ELSE LET i == Head(items)[1]
           p == Head(items)[2]
       IN IF p.type = "tool_use" /\ p.name = "AskUserQuestion"
          THEN Phase1(Tail(items), qs \cup {p.id}, ans)
          ELSE IF p.type = "tool_result" /\ p.id \in qs
          THEN Phase1(Tail(items), qs,
                 [ans EXCEPT ![p.id] =
                    [present |-> TRUE,
                     ans |-> [parse_ask_answer(p.res) EXCEPT !.src = i]]])
          ELSE Phase1(Tail(items), qs, ans)

CollectAsk_all(log, raw) ==
  Phase1(ListItems(log, IndicesFrom(1, Len(log))), {}, NoAnswers)

CollectAsk(log, raw) == Phase1(ListItems(log, raw), {}, NoAnswers)

(***************************************************************************)
(* Phase 2: grouping into turns                                            *)
(***************************************************************************)
Flush_front(st) ==
  [turns |-> IF st.cur # <<>>
             THEN <<[role |-> "assistant", recs |-> st.cur]>> \o st.turns
             ELSE st.turns,
   req |-> "", cur |-> <<>>]

\* flush_assistant: the pending group becomes a turn.
Flush(st) ==
  [turns |-> IF st.cur # <<>>
             THEN Append(st.turns, [role |-> "assistant", recs |-> st.cur])
             ELSE st.turns,
   req |-> "", cur |-> <<>>]

GroupStep_noflush(log, st, i) ==
  LET r == log[i] IN
    IF ~Truthy(r.content) THEN st
    ELSE IF r.role = "assistant"
    THEN IF r.req # "" /\ r.req = st.req
         THEN [st EXCEPT !.cur = Append(st.cur, i)]
         ELSE [Flush(st) EXCEPT !.req = r.req, !.cur = <<i>>]
    ELSE IF r.role = "user"
    THEN [st EXCEPT !.turns = Append(st.turns, [role |-> "user", recs |-> <<i>>])]
    ELSE st

GroupStep_noreq(log, st, i) ==
  LET r == log[i] IN
    IF ~Truthy(r.content) THEN st
    ELSE IF r.role = "assistant"
    THEN IF st.cur # <<>>
         THEN [st EXCEPT !.cur = Append(st.cur, i)]
         ELSE [Flush(st) EXCEPT !.req = r.req, !.cur = <<i>>]
    ELSE IF r.role = "user"
    THEN [Flush(st) EXCEPT
            !.turns = Append(Flush(st).turns, [role |-> "user", recs |-> <<i>>])]
    ELSE st

\* One iteration of the loop of lines 274-292.
GroupStep(log, st, i) ==
  LET r == log[i] IN
    IF ~Truthy(r.content) THEN st
    ELSE IF r.role = "assistant"
    THEN IF r.req # "" /\ r.req = st.req
         THEN [st EXCEPT !.cur = Append(st.cur, i)]
         ELSE [Flush(st) EXCEPT !.req = r.req, !.cur = <<i>>]
    ELSE IF r.role = "user"
    THEN [Flush(st) EXCEPT
            !.turns = Append(Flush(st).turns, [role |-> "user", recs |-> <<i>>])]
    ELSE st

RECURSIVE GroupLoop(_, _, _)
GroupLoop(log, raw, st) ==
  IF raw = <<>> THEN st ELSE GroupLoop(log, Tail(raw), GroupStep(log, st, Head(raw)))

GroupTurns(log, raw) ==
  Flush(GroupLoop(log, raw, [turns |-> <<>>, req |-> "", cur |-> <<>>])).turns

(***************************************************************************)
(* Phase 3: enriched messages                                              *)
(***************************************************************************)
NoAnnotation == [prefix |-> "", arg |-> <<>>, src |-> 0]

generate_tool_annotation_known(part) ==
  IF part.name = "Read"
  THEN [prefix |-> "Read: ", arg |-> shorten_path(part.path), src |-> 0]
  ELSE IF part.name = "Write"
  THEN [prefix |-> "Wrote: ", arg |-> shorten_path(part.path), src |-> 0]
  ELSE IF part.name = "Edit"
  THEN [prefix |-> "Edited: ", arg |-> shorten_path(part.path), src |-> 0]
  ELSE IF part.name = "Glob"
  THEN [prefix |-> "Found files: ", arg |-> part.path, src |-> 0]
  ELSE IF part.name = "EnterPlanMode"
  THEN [prefix |-> "Entered plan mode", arg |-> <<>>, src |-> 0]
  ELSE NoAnnotation

\* generate_tool_annotation, for the tool names of this model; a prefix of ""
\* is Python's None.
generate_tool_annotation(part) ==
  IF part.name = "Read"
  THEN [prefix |-> "Read: ", arg |-> shorten_path(part.path), src |-> 0]
  ELSE IF part.name = "Write"
  THEN [prefix |-> "Wrote: ", arg |-> shorten_path(part.path), src |-> 0]
  ELSE IF part.name = "Edit"
  THEN [prefix |-> "Edited: ", arg |-> shorten_path(part.path), src |-> 0]
  ELSE IF part.name = "Glob"
  THEN [prefix |-> "Found files: ", arg |-> part.path, src |-> 0]
  ELSE IF part.name = "EnterPlanMode"
  THEN [prefix |-> "Entered plan mode", arg |-> <<>>, src |-> 0]
  ELSE IF part.name = "AskUserQuestion"
  THEN NoAnnotation
  ELSE [prefix |-> "Used tool: ", arg |-> <<part.name>>, src |-> 0]

LineCount(part) == IF part.chars > 0 THEN part.nl + 1 ELSE 0

Captured_strict(part) == part.chars > 0 /\ LineCount(part) < WriteMaxLines

\* Line 345: whether a Write invocation's content is captured.
Captured(part) == part.chars > 0 /\ LineCount(part) <= WriteMaxLines

\* format_question_answer, lines 137-140: the answer line of a Q&A block (the
\* question and option lines do not depend on the answer).
format_question_answer(qa) ==
  IF ~qa.answer.null /\ qa.answer.val # <<>>
  THEN <<"> **Answer:** ">> \o qa.answer.val
  ELSE <<"> **Answer:** [No answer recorded]">>

NoEnrichment ==
  [texts |-> <<>>, textSrc |-> <<>>, tool_annotations |-> <<>>,
   question_answers |-> <<>>, write_contents |-> <<>>]

\* One part of an assistant turn (lines 319-350).
EnrichStep(acc, i, part, answers) ==
  IF part.type = "text"
  THEN [acc EXCEPT !.texts = Append(acc.texts, part.text),
                   !.textSrc = Append(acc.textSrc, i)]
  ELSE IF part.type = "tool_use"
  THEN LET ann == generate_tool_annotation(part)
           a1 == IF ann.prefix # ""
                 THEN [acc EXCEPT !.tool_annotations =
                         Append(acc.tool_annotations, [ann EXCEPT !.src = i])]
                 ELSE acc
           a2 == IF part.name = "AskUserQuestion"
                 THEN [a1 EXCEPT !.question_answers =
                         Append(a1.question_answers,
                           [id |-> part.id, src |-> i,
                            answer |-> IF part.id \in ToolIds
                                          /\ answers[part.id].present
                                       THEN answers[part.id].ans
                                       ELSE NullAnswer])]
                 ELSE a1
           a3 == IF part.name = "Write" /\ Captured(part)
                 THEN [a2 EXCEPT !.write_contents =
                         Append(a2.write_contents,
                           [file_path |-> part.path, chars |-> part.chars,
                            nl |-> part.nl, line_count |-> LineCount(part),
                            id |-> part.id, src |-> i])]
                 ELSE a2
       IN a3
  ELSE acc

RECURSIVE Enrich(_, _, _)
Enrich(items, acc, answers) ==
  IF items = <<>> THEN acc
  ELSE Enrich(Tail(items),
              EnrichStep(acc, Head(items)[1], Head(items)[2], answers), answers)

\* The indices of the text parts that survive `if t.strip()`.
KeptTexts(acc) == {k \in DOMAIN acc.texts : strip(acc.texts[k]) # <<>>}

RECURSIVE Pick(_, _, _)
Pick(s, K, k) ==
  IF k > Len(s) THEN <<>>
  ELSE (IF k \in K THEN <<s[k]>> ELSE <<>>) \o Pick(s, K, k + 1)

AssistantMessage_textonly(log, recs, answers) ==
  LET acc == Enrich(FlatItems(log, recs), NoEnrichment, answers)
      text == JoinNN(Pick(acc.texts, KeptTexts(acc), 1))
  IN [made |-> is_meaningful(text),
      role |-> "assistant", text |-> text,
      textSrc |-> Pick(acc.textSrc, KeptTexts(acc), 1),
      timestamp |-> log[recs[1]].ts, recs |-> recs,
      tool_annotations |-> acc.tool_annotations,
      question_answers |-> acc.question_answers,
      write_contents |-> acc.write_contents]

\* The message of an assistant turn; `made` is whether it is appended.
AssistantMessage(log, recs, answers) ==
  LET acc == Enrich(FlatItems(log, recs), NoEnrichment, answers)
      text == JoinNN(Pick(acc.texts, KeptTexts(acc), 1))
  IN [made |-> is_meaningful(text) \/ acc.tool_annotations # <<>>
                 \/ acc.question_answers # <<>>,
      role |-> "assistant", text |-> text,
      textSrc |-> Pick(acc.textSrc, KeptTexts(acc), 1),
      timestamp |-> log[recs[1]].ts, recs |-> recs,
      tool_annotations |-> acc.tool_annotations,
      question_answers |-> acc.question_answers,
      write_contents |-> acc.write_contents]

UserText_all(c) ==
  IF c.kind = "str" THEN c.text
  ELSE JoinNN([k \in DOMAIN c.parts |->
                 IF c.parts[k].type = "text" THEN c.parts[k].text ELSE <<"raw">>])

\* The text of a user record: the string, or the text parts joined.
UserText(c) ==
  IF c.kind = "str" THEN c.text
  ELSE LET IsText(p) == p.type = "text"
           ps == SelectSeq(c.parts, IsText)
       IN JoinNN([k \in DOMAIN ps |-> ps[k].text])

\* is_only_ask_results of lines 378-389.
OnlyAskResults(c, qs) ==
  \A k \in DOMAIN c.parts :
    \/ c.parts[k].type = "text"
    \/ c.parts[k].type = "tool_result" /\ c.parts[k].id \in qs

\* The message of a user turn (lines 367-407).
UserMessage(log, i, qs) ==
  LET c == log[i].content
      text == UserText(c)
      skipped == c.kind = "list" /\ OnlyAskResults(c, qs) /\ ~is_meaningful(text)
  IN [made |-> ~skipped /\ is_meaningful(text),
      role |-> "user", text |-> text,
      textSrc |-> <<i>>, timestamp |-> log[i].ts, recs |-> <<i>>,
      tool_annotations |-> <<>>, question_answers |-> <<>>,
      write_contents |-> <<>>]

RECURSIVE BuildMessages(_, _, _)
BuildMessages(log, turns, ask) ==
  IF turns = <<>> THEN <<>>
  ELSE LET t == Head(turns)
           m == IF t.role = "assistant"
                THEN AssistantMessage(log, t.recs, ask.ask_answers)
                ELSE UserMessage(log, t.recs[1], ask.ask_questions)
       IN (IF m.made THEN <<m>> ELSE <<>>) \o BuildMessages(log, Tail(turns), ask)

(***************************************************************************)
(* The legacy script, find-conversations.py                                *)
(***************************************************************************)
\* The text of a record as lines 76-83 build it.
legacy_text(c) ==
  IF c.kind = "str" THEN c.text
  ELSE LET IsText(p) == p.type = "text"
           ps == SelectSeq(c.parts, IsText)
       IN JoinNN([k \in DOMAIN ps |-> ps[k].text])

\* The loop of lines 53-94 from record i on: every record of the file, in file
\* order, with no path filter.
RECURSIVE legacy_messages_from(_, _)
legacy_messages_from(log, i) ==
  IF i > Len(log) THEN <<>>
  ELSE LET r == log[i]
           kept == /\ r.json = "object"
                   /\ r.msg # "absent" /\ ~r.meta
                   /\ Truthy(r.content)
                   /\ is_meaningful(legacy_text(r.content))
       IN (IF kept
           THEN <<[role |-> r.role, text |-> legacy_text(r.content),
                   timestamp |-> r.ts, rec |-> i]>>
           ELSE <<>>) \o legacy_messages_from(log, i + 1)

\* msg.get on a null message raises inside the outer try of lines 51-103, whose
\* handler returns None.
legacy_fails(log) ==
  \E i \in DOMAIN log : log[i].json = "object" /\ log[i].msg = "null" /\ ~log[i].meta

(***************************************************************************)
(* export_conversation                                                     *)
(***************************************************************************)
\* File names without their suffix are sequences of characters.
AgentPrefix == <<"a", "g", "e", "n", "t", "-">>

startswith(s, p) == Len(p) <= Len(s) /\ SubSeq(s, 1, Len(p)) = p

\* Line 589: whether a file name matches the id asked for.
name_matches(stem, session_id) == stem = session_id \/ startswith(stem, session_id)

file_matches_first(dir, session_id) ==
  LET Hit(stem) == ~startswith(stem, AgentPrefix) /\ name_matches(stem, session_id)
      m == SelectSeq(dir, Hit)
  IN IF m = <<>> THEN <<>> ELSE <<m[1]>>

\* matches of lines 582-590, in the order the directories list the files.
file_matches(dir, session_id) ==
  LET Hit(stem) == ~startswith(stem, AgentPrefix) /\ name_matches(stem, session_id)
  IN SelectSeq(dir, Hit)

\* A timestamp that datetime.fromisoformat does not accept; as a string it
\* sorts after the two that it accepts.
BadTs == 3

timestamp_parses_any(ts) == TRUE

\* Line 612: last_timestamp.replace raises on None, fromisoformat on BadTs.
timestamp_parses(ts) == ts \in {1, 2}

\* The tokens of `text` before its first newline.
RECURSIVE first_line(_)
first_line(text) ==
  IF text = <<>> \/ Head(text) = "nl" THEN <<>>
  ELSE <<Head(text)>> \o first_line(Tail(text))

\* first_user_msg of lines 409-410 and 419, for texts of at most 100 characters.
first_message(messages) ==
  LET U == {k \in DOMAIN messages : messages[k].role = "user"} IN
    IF U = {} THEN <<"Unknown">>
    ELSE first_line(messages[CHOOSE k \in U : \A j \in U : k <= j].text)

\* The header, lines 619-622.
HeaderLines(messages, last_timestamp) ==
  << [kind |-> "title", text |-> first_message(messages)],
     [kind |-> "date", ts |-> last_timestamp],
     [kind |-> "count", n |-> Len(messages)] >>

\* The table of contents, lines 627-636, from message k on; previews are of
\* texts whose first line has at most 100 characters.
RECURSIVE TocLines(_, _, _)
TocLines(messages, k, user_count) ==
  IF k > Len(messages) THEN <<>>
  ELSE IF messages[k].role = "user"
  THEN << [kind |-> "toc", n |-> user_count + 1, anchor |-> user_count + 1,
           preview |-> first_line(strip(messages[k].text)), msg |-> k] >>
       \o TocLines(messages, k + 1, user_count + 1)
  ELSE TocLines(messages, k + 1, user_count)

\* write_map of lines 661-663: the last captured content of each path.
write_map(wcs, key) ==
  LET S == {j \in DOMAIN wcs : shorten_path(wcs[j].file_path) = key} IN
    IF S = {} THEN 0 ELSE CHOOSE j \in S : \A i \in S : i <= j

\* Lines 655-657: the Q&A blocks of message k.
QALines(m, k) ==
  [j \in DOMAIN m.question_answers |->
     [kind |-> "qa", msg |-> k, item |-> j,
      text |-> format_question_answer(m.question_answers[j])]]

\* Lines 666-682: annotation j of message k and the file content block after it.
AnnotationLines(m, k, j) ==
  LET ann == m.tool_annotations[j]
      w == write_map(m.write_contents, ann.arg)
  IN << [kind |-> "annotation", msg |-> k, item |-> j,
         text |-> <<ann.prefix>> \o ann.arg] >>
     \o (IF ann.prefix = "Wrote: " /\ w # 0
         THEN << [kind |-> "details", msg |-> k, item |-> j,
                  wc |-> m.write_contents[w]] >>
         ELSE <<>>)

RECURSIVE AnnotationsFrom(_, _, _)
AnnotationsFrom(m, k, j) ==
  IF j > Len(m.tool_annotations) THEN <<>>
  ELSE AnnotationLines(m, k, j) \o AnnotationsFrom(m, k, j + 1)

\* Lines 648-683: an assistant message.
AssistantLines(m, k) ==
  (IF strip(m.text) # <<>>
   THEN << [kind |-> "label", msg |-> k, text |-> <<"**Assistant:**">>],
           [kind |-> "text", msg |-> k, text |-> m.text] >>
   ELSE <<>>)
  \o QALines(m, k) \o AnnotationsFrom(m, k, 1)

\* Lines 643-646: a user message.
UserLines(m, k, user_count) ==
  << [kind |-> "heading", msg |-> k, n |-> user_count, anchor |-> user_count],
     [kind |-> "text", msg |-> k, text |-> m.text] >>

RECURSIVE BodyLines_every(_, _, _)
BodyLines_every(messages, k, user_count) ==
  IF k > Len(messages) THEN <<>>
  ELSE LET m == messages[k]
           rule == << [kind |-> "rule", msg |-> k] >>
       IN IF m.role = "user"
          THEN UserLines(m, k, user_count + 1) \o rule
               \o BodyLines_every(messages, k + 1, user_count + 1)
          ELSE AssistantLines(m, k) \o rule
               \o BodyLines_every(messages, k + 1, user_count + 1)

\* The body, lines 641-685, from message k on.
RECURSIVE BodyLines(_, _, _)
BodyLines(messages, k, user_count) ==
  IF k > Len(messages) THEN <<>>
  ELSE LET m == messages[k]
           rule == << [kind |-> "rule", msg |-> k] >>
       IN IF m.role = "user"
          THEN UserLines(m, k, user_count + 1) \o rule
               \o BodyLines(messages, k + 1, user_count + 1)
          ELSE AssistantLines(m, k) \o rule
               \o BodyLines(messages, k + 1, user_count)

\* What lines 617-685 write.
Render(messages, last_timestamp) ==
  HeaderLines(messages, last_timestamp)
  \o TocLines(messages, 1, 0) \o BodyLines(messages, 1, 0)

NoDocument == [written |-> FALSE, named |-> "", lines |-> <<>>]

(***************************************************************************)
(* Logs                                                                    *)
(***************************************************************************)
\* The two timestamp ranks: an earlier and a later one.
Timestamps == {1, 2}

Sig == <<"fix", "bug">>
Retry == <<"retry">>
Blank == <<"sp">>
Cmd == <<"<command-name>", "x">>
Stdout == <<"sp", "<local-command-stdout>", "x">>
Interrupted == <<"[Request interrupted", "x">>
Home == <<"HOME", "a.py">>
Tilde == <<"~", "a.py">>

Answered == ResAnswered(<< <<"blue">> >>)
AnsweredEmpty == ResAnswered(<< <<"sp">> >>)
AnsweredTwice == ResAnswered(<< <<"blue">>, <<"sp", "red">> >>)
Declined == ResDeclined(FALSE, <<>>)
DeclinedSaid == ResDeclined(TRUE, <<"sp", "no", "Questions asked:", "x">>)
DeclinedBoilerplate ==
  ResDeclined(TRUE, <<"user wants to clarify these questions", "This means">>)

User(content) == Payload("dict", FALSE, "user", "", content)
Assistant(req, content) == Payload("dict", FALSE, "assistant", req, content)

\* An assistant record with text, a captured Write, a question and a Read.
RichAssistant ==
  Assistant("A", List(<<TextPart(Sig), WriteUse(2, Home, 5, 0),
                        ToolUse("AskUserQuestion", 1, <<>>)>>))

\* A user record that answers question 1 and says something.
AnsweringUser == User(List(<<ToolResult(1, Answered), TextPart(Retry)>>))

\* Record i of a log whose record `s` (if any) is the answering user.
SchemePayload(s, i) == IF i = s THEN AnsweringUser ELSE RichAssistant

ParentIds(n) == (0..n) \cup {Dangling}

\* A log of n records that all carry an id, by its parent linkage, its
\* timestamps and the place of the answering user.
ShapeLog(n, par, ts, s) ==
  [i \in 1..n |-> Rec(i, par[i], ts[i], SchemePayload(s, i))]

\* A log of n records of which record k, or every record (k = 0), carries no id.
IdlessLog(n, par, k) ==
  [i \in 1..n |-> Rec(IF k = 0 \/ k = i THEN None ELSE i, par[i], 1,
                      IF i = k THEN User(Str(Retry)) ELSE RichAssistant)]

\* A chain: record i is the child of record i - 1.
ChainLog(n, pl) == [i \in 1..n |-> Rec(i, i - 1, 1, pl[i])]

GroupPayloads ==
  {User(Str(Sig)), User(Str(<<>>)),
   Payload("dict", FALSE, "system", "A", Str(Sig))}
  \cup {Assistant(r, c) : r \in {"", "A", "B"}, c \in {Str(Sig), List(<<>>)}}

AskPayloads ==
  {Assistant("A", List(<<ToolUse("AskUserQuestion", 1, <<>>)>>)),
   Assistant("B", List(<<ToolUse("AskUserQuestion", 2, <<>>), TextPart(Sig),
                         ToolUse("AskUserQuestion", 1, <<>>)>>)),
   User(Str(Sig)),
   User(List(<<ToolResult(1, Answered)>>)),
   User(List(<<ToolResult(1, ResOther)>>)),
   User(List(<<ToolResult(1, AnsweredEmpty)>>)),
   User(List(<<ToolResult(2, DeclinedSaid)>>)),
   User(List(<<ToolResult(2, DeclinedBoilerplate), ToolResult(1, AnsweredTwice)>>)),
   User(List(<<ToolResult(1, Declined), TextPart(Blank)>>)),
   User(List(<<ToolResult(2, NoRes), TextPart(Retry)>>))}

WritePayloads ==
  {Assistant("A", List(<<WriteUse(1, Home, 400, WriteMaxLines - 1)>>)),
   Assistant("A", List(<<WriteUse(1, Home, 400, WriteMaxLines)>>)),
   Assistant("A", List(<<WriteUse(2, Tilde, 0, 0), TextPart(Blank)>>)),
   Assistant("B", List(<<WriteUse(2, <<"b">>, 3, 1), ToolUse("Read", 1, Home)>>)),
   Assistant("B", List(<<TextPart(Cmd), ToolUse("Foo", 1, <<>>)>>)),
   Assistant("", List(<<Thinking, TextPart(Stdout)>>)),
   Assistant("", Str(Interrupted)),
   User(Str(Cmd)),
   User(List(<<TextPart(<<>>), TextPart(Sig)>>))}

MessagePayloads ==
  {Payload("null", FALSE, "", "", NoContent),
   Payload("absent", FALSE, "", "", NoContent),
   Payload("dict", TRUE, "user", "", Str(Sig)),
   Payload("dict", FALSE, "user", "", NoContent),
   User(Str(Sig)),
   Assistant("A", Str(Retry))}

ChainPayloads == {GroupPayloads, AskPayloads, WritePayloads, MessagePayloads}

\* The session ids records carry.
SessionIds == {"absent", "", "s1", "s2"}

\* A record without an id that says something and carries session id `sid`.
SessionLine(sid) == [Rec(None, None, 1, User(Str(Sig))) EXCEPT !.sid = sid]

\* The lines a file is made of when the loader is looked at.
Lines ==
  {OtherLine("malformed"), OtherLine("scalar"), OtherLine("array")}
  \cup {SessionLine(sid) : sid \in SessionIds}

\* The logs the model reads: every linkage of up to MaxLen records, and every
\* chain of up to MaxLen records of one of the payload sets.
IsLog(l) ==
  \E n \in 1..MaxLen :
    \/ \E par \in [1..n -> ParentIds(n)], ts \in [1..n -> Timestamps], s \in 0..n :
         l = ShapeLog(n, par, ts, s)
    \/ \E par \in [1..n -> ParentIds(n)], k \in 0..n : l = IdlessLog(n, par, k)
    \/ \E P \in ChainPayloads : \E pl \in [1..n -> P] : l = ChainLog(n, pl)

\* What the records of an exported conversation hold.
ExportPayloads ==
  {User(Str(Sig)),
   User(Str(<<"sp", "retry", "nl", "x">>)),
   User(List(<<ToolResult(1, Answered)>>)),
   Assistant("A", List(<<ToolUse("Read", 1, Home)>>)),
   Assistant("A", List(<<TextPart(Sig), WriteUse(2, Home, 5, 0)>>)),
   Assistant("A", List(<<WriteUse(1, Home, 0, 0), WriteUse(2, Home, 7, 1)>>)),
   Assistant("B", List(<<ToolUse("AskUserQuestion", 1, <<>>)>>))}

\* A chain whose last record has timestamp ts.
ExportLog(n, pl, ts) ==
  [i \in 1..n |-> Rec(i, i - 1, IF i = n THEN ts ELSE 1, pl[i])]

\* The files that are exported.
IsExportFile(f) ==
  \E n \in 1..MaxLen : \E pl \in [1..n -> ExportPayloads], ts \in {1, BadTs} :
    f = ExportLog(n, pl, ts)

\* The names of the files of the projects directory, and the ids asked for.
StemAB == <<"a", "b">>
StemABC == <<"a", "b", "c">>
StemAC == <<"a", "c">>
StemAgent == AgentPrefix \o <<"x">>

Listings ==
  {<<>>, <<StemAB>>, <<StemAB, StemAC>>, <<StemABC, StemAB>>,
   <<StemAgent, StemAB>>, <<StemAB, StemAB>>, <<StemAgent, StemAgent>>,
   <<StemAB, StemAgent, StemAC>>}

Targets == {<<"a">>, StemAB, StemABC, StemAgent}

\* The files the model reads: the logs above, every line an object, and every
\* file of up to MaxLen lines of `Lines`.
IsFile(f) ==
  \/ IsLog(f)
  \/ \E n \in 0..MaxLen : \E ln \in [1..n -> Lines] : f = ln

(***************************************************************************)
(* State                                                                   *)
(***************************************************************************)
VARIABLES
  command,    \* the command run: "search" or "export"
  dir,        \* the names of the log files, in listing order
  session_id, \* the id export_conversation is asked for
  output_path, \* the output path it is given ("": none)
  conv_file,  \* the name of the file it has found (<<>>: none)
  printed,    \* what export_conversation has reported
  document,   \* the document written
  file,       \* the lines of the file
  scalars,    \* session_id and last_timestamp of the loader
  log,        \* all_records
  pc,         \* where the run is
  found,      \* find_winning_path returned a set (not None)
  latest,     \* latest_terminal, as an index into the log (0: none)
  current,    \* the id the walk is at (None: the walk is over)
  winning,    \* winning_uuids
  raw,        \* raw_records, as indices into the log
  ask,        \* ask_questions and ask_answers
  turns,      \* the groups of phase 2
  messages,   \* the enriched messages
  keyword,    \* the keyword searched for
  matches,    \* the indices of the messages that match it
  legacy      \* the messages of the legacy script's parse_conversation

exportVars ==
  <<command, dir, session_id, output_path, conv_file, printed, document>>

vars ==
  <<command, dir, session_id, output_path, conv_file, printed, document, file, scalars, log, pc, found,
    latest, current, winning, raw, ask, turns, messages, keyword, matches, legacy>>

NoAsk == [ask_questions |-> {}, ask_answers |-> NoAnswers]

NoScalars == [session_id |-> "absent", last_timestamp |-> None]

Init ==
  /\ \/ /\ command = "search"
        /\ dir = <<>>
        /\ session_id = <<>>
        /\ pc = "load"
     \/ /\ command = "export"
        /\ dir \in Listings
        /\ session_id \in Targets
        /\ pc = "select"
  /\ output_path = ""
  /\ conv_file = <<>>
  /\ printed = <<>>
  /\ document = NoDocument
  /\ file = <<>>
  /\ scalars = NoScalars
  /\ log = <<>>
  /\ found = FALSE
  /\ latest = 0
  /\ current = None
  /\ winning = {}
  /\ raw = <<>>
  /\ ask = NoAsk
  /\ turns = <<>>
  /\ messages = <<>>
  /\ keyword = ""
  /\ matches = {}
  /\ legacy = <<>>

\* export_conversation, lines 582-603: the file is looked for.
Select ==
  /\ pc = "select"
  /\ LET m == file_matches(dir, session_id) IN
       IF m = <<>>
       THEN /\ printed' = << [kind |-> "not found", ids |-> <<session_id>>] >>
            /\ pc' = "not_found"
            /\ UNCHANGED conv_file
       ELSE IF Len(m) > 1
       THEN /\ printed' = << [kind |-> "ambiguous", ids |-> m] >>
            /\ pc' = "ambiguous"
            /\ UNCHANGED conv_file
       ELSE /\ printed' = printed
            /\ conv_file' = m[1]
            /\ pc' = "load"
  /\ UNCHANGED <<command, dir, session_id, output_path, document, file, scalars,
                 log, found, latest, current, winning, raw, ask, turns, messages,
                 keyword, matches, legacy>>

\* The loader, lines 199-221, on the file it is given.
Load ==
  /\ pc = "load"
  /\ IF command = "export" THEN IsExportFile(file') ELSE IsFile(file')
  /\ IF load_fails(file') \/ all_records(file') = <<>>
     THEN /\ pc' = "no_records"
          /\ UNCHANGED <<log, scalars>>
     ELSE /\ log' = all_records(file')
          /\ scalars' = [session_id |-> session_id_of(all_records(file')),
                         last_timestamp |-> last_timestamp_of(all_records(file'))]
          /\ pc' = "start"
  /\ UNCHANGED <<found, latest, current, winning, raw, ask, turns, messages,
                 keyword, matches, legacy>>
  /\ UNCHANGED exportVars

\* find_winning_path, lines 154-176: up to the start of the walk. r.get of line
\* 155 raises AttributeError on a list.
FindTerminal ==
  /\ pc = "start"
  /\ IF \E i \in Indices(log) : log[i].json = "array"
     THEN /\ pc' = "path_raised"
          /\ UNCHANGED <<latest, current>>
     ELSE IF NoUuid(log) \/ Terminals(log) = <<>>
     THEN /\ pc' = "parse"
          /\ UNCHANGED <<latest, current>>
     ELSE /\ latest' = latest_terminal(log)
          /\ current' = log[latest_terminal(log)].uuid
          /\ pc' = "walk"
  /\ UNCHANGED exportVars
  /\ UNCHANGED <<file, scalars, log, found, winning, raw, ask, turns, messages, keyword, matches,
                 legacy>>

WalkStep_strict ==
  /\ pc = "walk"
  /\ current # None
  /\ winning' = winning \cup {current}
  /\ IF by_uuid(log, current) = None
     THEN /\ current' = current
          /\ found' = FALSE
          /\ pc' = "path_raised"
     ELSE /\ current' = ParentOf(log, current)
          /\ found' = (ParentOf(log, current) = None)
          /\ pc' = IF ParentOf(log, current) = None THEN "parse" ELSE "walk"
  /\ UNCHANGED exportVars
  /\ UNCHANGED <<file, scalars, log, latest, raw, ask, turns, messages, keyword, matches, legacy>>

\* One iteration of the walk, lines 177-182, and the return when it ends.
WalkStep ==
  /\ pc = "walk"
  /\ current # None
  /\ winning' = winning \cup {current}
  /\ IF by_uuid(log, current) = None
     THEN /\ current' = current
          /\ found' = TRUE
          /\ pc' = "parse"
     ELSE /\ current' = ParentOf(log, current)
          /\ found' = (ParentOf(log, current) = None)
          /\ pc' = IF ParentOf(log, current) = None THEN "parse" ELSE "walk"
  /\ UNCHANGED exportVars
  /\ UNCHANGED <<file, scalars, log, latest, raw, ask, turns, messages, keyword, matches, legacy>>

\* parse_conversation after the records are loaded, lines 223-424.
Parse ==
  /\ pc = "parse"
  /\ LET r == raw_records(log, found, winning) IN
       /\ raw' = r
       /\ IF r = <<>>
          THEN /\ pc' = "none"
               /\ UNCHANGED <<ask, turns, messages>>
          ELSE IF Raises(log, r)
          THEN /\ pc' = "raised"
               /\ UNCHANGED <<ask, turns, messages>>
          ELSE LET a == CollectAsk(log, r)
                   t == GroupTurns(log, r)
                   m == BuildMessages(log, t, a)
               IN /\ ask' = a
                  /\ turns' = t
                  /\ messages' = m
                  /\ pc' = IF m = <<>> THEN "none" ELSE "parsed"
  /\ UNCHANGED exportVars
  /\ UNCHANGED <<file, scalars, log, found, latest, current, winning, keyword, matches, legacy>>

Keywords == {"fix", "x"}

Contains(text, k) == \E j \in DOMAIN text : text[j] = k

\* search_conversations, lines 530-545, on one parsed conversation.
Search ==
  /\ command = "search"
  /\ pc = "parsed"
  /\ \E k \in Keywords :
       /\ keyword' = k
       /\ matches' = {j \in DOMAIN messages : Contains(messages[j].text, k)}
  /\ pc' = "searched"
  /\ UNCHANGED exportVars
  /\ UNCHANGED <<file, scalars, log, found, latest, current, winning, raw, ask, turns, messages,
                 legacy>>

\* The legacy script's parse_conversation, find-conversations.py lines 43-117,
\* run on the same file.
LegacyParse ==
  /\ command = "search"
  /\ pc = "start"
  /\ legacy' = IF legacy_fails(log) THEN <<>> ELSE legacy_messages_from(log, 1)
  /\ pc' = IF legacy_fails(log) \/ legacy_messages_from(log, 1) = <<>>
           THEN "legacy_none" ELSE "legacy_parsed"
  /\ UNCHANGED exportVars
  /\ UNCHANGED <<file, scalars, log, found, latest, current, winning, raw, ask, turns, messages,
                 keyword, matches>>

\* The legacy script's search_conversations, find-conversations.py lines
\* 224-238, on one parsed conversation.
LegacySearch ==
  /\ pc = "legacy_parsed"
  /\ \E k \in Keywords :
       /\ keyword' = k
       /\ matches' = {j \in DOMAIN legacy : Contains(legacy[j].text, k)}
  /\ pc' = "legacy_searched"
  /\ UNCHANGED exportVars
  /\ UNCHANGED <<file, scalars, log, found, latest, current, winning, raw, ask, turns, messages,
                 legacy>>

OutputPaths == {"", "out.md"}

\* export_conversation, lines 605-688, once parse_conversation has returned,
\* with the output path it was called with. A document named "dated" has the
\* name that line 614 makes.
Export ==
  /\ command = "export"
  /\ pc \in {"no_records", "none", "parsed"}
  /\ output_path' \in OutputPaths
  /\ IF pc # "parsed"
     THEN /\ printed' = << [kind |-> "failed", ids |-> <<session_id>>] >>
          /\ pc' = "failed"
          /\ UNCHANGED document
     ELSE IF output_path' = "" /\ ~timestamp_parses(scalars.last_timestamp)
     THEN /\ pc' = "export_raised"
          /\ UNCHANGED <<printed, document>>
     ELSE /\ document' =
               [written |-> TRUE,
                named |-> IF output_path' = "" THEN "dated" ELSE output_path',
                lines |-> Render(messages, scalars.last_timestamp)]
          /\ printed' = << [kind |-> "exported", ids |-> <<>>] >>
          /\ pc' = "exported"
  /\ UNCHANGED <<command, dir, session_id, conv_file, file, scalars, log, found,
                 latest, current, winning, raw, ask, turns, messages, keyword,
                 matches, legacy>>

Next ==
  \/ Select \/ Load \/ FindTerminal \/ WalkStep \/ Parse \/ Search \/ Export
  \/ LegacyParse \/ LegacySearch

Spec == Init /\ [][Next]_vars

\* The loop of lines 177-182 goes on as long as its condition holds: the
\* interpreter does not stop by itself.
FairSpec == Spec /\ WF_vars(WalkStep)

(***************************************************************************)
(* What the properties speak of                                            *)
(***************************************************************************)
\* find_winning_path has chosen where to start.
Started ==
  pc \in {"walk", "parse", "none", "raised", "parsed", "searched", "exported",
          "export_raised"}
AfterParse == pc \in {"none", "raised", "parsed", "searched", "exported", "export_raised"}
Parsed == pc \in {"parsed", "searched", "exported", "export_raised"}

\* The records with an id that no record names as its parent.
TerminalRecords == {i \in Indices(log) : log[i].uuid # None
                      /\ \A j \in Indices(log) : log[j].parent # log[i].uuid}

\* The record that record i names as its parent (0: none in the log).
ParentRecord(i) ==
  LET S == {j \in Indices(log) : log[i].parent # None /\ log[j].uuid = log[i].parent}
  IN IF S = {} THEN 0 ELSE CHOOSE j \in S : TRUE

\* The k-th ancestor of record i (0: the chain ended before).
RECURSIVE Up(_, _)
Up(i, k) == IF k = 0 \/ i = 0 THEN i ELSE Up(ParentRecord(i), k - 1)

Acyclic == \A i \in Indices(log) : \A k \in 1..Len(log) : Up(i, k) # i

\* The records on the ancestor chain of record t, and their ids.
ChainRecords(t) == {Up(t, k) : k \in 0..Len(log)} \ {0}
ChainIds(t) == {log[i].uuid : i \in ChainRecords(t)}

\* The parent ids named on the chain of t that no record carries.
DanglingIds(t) ==
  {log[i].parent : i \in {j \in ChainRecords(t) :
                            log[j].parent # None /\ ParentRecord(j) = 0}}

InRaw(i) == \E k \in DOMAIN raw : raw[k] = i

\* The records a message draws anything from: its records, its text parts,
\* annotations, Q&A blocks, their answers, and its captured file contents.
Sources(m) ==
  {m.recs[k] : k \in DOMAIN m.recs}
  \cup {m.textSrc[k] : k \in DOMAIN m.textSrc}
  \cup {m.tool_annotations[k].src : k \in DOMAIN m.tool_annotations}
  \cup {m.question_answers[k].src : k \in DOMAIN m.question_answers}
  \cup ({m.question_answers[k].answer.src : k \in DOMAIN m.question_answers} \ {0})
  \cup {m.write_contents[k].src : k \in DOMAIN m.write_contents}

(***************************************************************************)
(* C1                                                                      *)
(***************************************************************************)
\* C1, as stated: for an acyclic log with exactly one terminal, the winning path
\* is exactly the set of ids on the terminal's ancestor chain, and every record
\* that is not on the chain, with or without an id, is left out of raw_records.
C1_AsStated ==
  (AfterParse /\ Acyclic /\ Cardinality(TerminalRecords) = 1) =>
    LET t == CHOOSE i \in TerminalRecords : TRUE IN
      /\ found
      /\ winning = ChainIds(t)
      /\ \A i \in Indices(log) : log[i].uuid \notin ChainIds(t) => ~InRaw(i)

\* C1, amended: for an acyclic log with exactly one terminal, the winning path
\* holds the ids of the records on the terminal's ancestor chain and the parent
\* id the chain names that no record carries; a record is in raw_records exactly
\* when it has a message, is not meta, and either carries no id or carries an id
\* of the chain.
C1_PathAndFilter ==
  (AfterParse /\ Acyclic /\ Cardinality(TerminalRecords) = 1) =>
    LET t == CHOOSE i \in TerminalRecords : TRUE IN
      /\ found
      /\ winning = ChainIds(t) \cup DanglingIds(t)
      /\ \A i \in Indices(log) :
           InRaw(i) <=> /\ log[i].msg # "absent"
                        /\ ~log[i].meta
                        /\ (log[i].uuid = None \/ log[i].uuid \in ChainIds(t))

\* An acyclic log with one terminal whose chain has two records, and a record
\* without an id that was kept.
C1_Witness ==
  /\ AfterParse /\ Acyclic /\ Cardinality(TerminalRecords) = 1
  /\ \E t \in TerminalRecords : Cardinality(ChainRecords(t)) >= 2
  /\ \E i \in Indices(log) : log[i].uuid = None /\ InRaw(i)

(***************************************************************************)
(* C2                                                                      *)
(***************************************************************************)
\* C2: the walk starts from the terminal with the greatest timestamp, the last
\* one in input order among those that share it; the path found holds that
\* terminal's id and no other terminal's, whatever the order of the records.
C2_LatestTerminal ==
  (Started /\ TerminalRecords # {}) =>
    /\ latest \in TerminalRecords
    /\ \A t \in TerminalRecords :
         \/ log[t].ts < log[latest].ts
         \/ log[t].ts = log[latest].ts /\ t <= latest
    /\ found => /\ log[latest].uuid \in winning
                /\ \A t \in TerminalRecords \ {latest} : log[t].uuid \notin winning

\* The later terminal comes first in the input and is chosen, and two terminals
\* share the greatest timestamp.
C2_Witness ==
  /\ found /\ pc = "parse"
  /\ \E t \in TerminalRecords : t > latest /\ log[t].ts < log[latest].ts
  /\ \E t \in TerminalRecords : t < latest /\ log[t].ts = log[latest].ts

(***************************************************************************)
(* C3                                                                      *)
(***************************************************************************)
\* A record that carries an id the winning path does not hold.
OffPath(i) == found /\ log[i].uuid # None /\ log[i].uuid \notin winning

Grouped == AfterParse /\ pc # "raised" /\ raw # <<>>

TurnsOf(i) ==
  {t \in DOMAIN turns : \E k \in DOMAIN turns[t].recs : turns[t].recs[k] = i}

InOneAssistantTurn(i) ==
  Cardinality(TurnsOf(i)) = 1 /\ \A t \in TurnsOf(i) : turns[t].role = "assistant"

IsAssistant(i) == log[i].role = "assistant"
IsUser(i) == log[i].role = "user"
HasContent(i) == Truthy(log[i].content)

\* Adjacent assistant records of raw_records with one non-empty correlation id
\* are in the same single turn; with different ids, the first ends its turn and
\* the second starts another.
GroupedByRequest(k) ==
  LET a == raw[k]
      b == raw[k + 1]
  IN /\ (log[a].req # "" /\ log[a].req = log[b].req) =>
          InOneAssistantTurn(a) /\ TurnsOf(a) = TurnsOf(b)
     /\ log[a].req # log[b].req =>
          /\ InOneAssistantTurn(a) /\ InOneAssistantTurn(b)
          /\ \A t \in TurnsOf(a) : turns[t].recs[Len(turns[t].recs)] = a
          /\ \A t \in TurnsOf(b) : turns[t].recs[1] = b
          /\ TurnsOf(a) # TurnsOf(b)

\* C4, as stated: of every assistant record of the filtered sequence.
C4_AsStated ==
  Grouped =>
    /\ \A k \in DOMAIN raw : IsAssistant(raw[k]) => InOneAssistantTurn(raw[k])
    /\ \A k \in 1..(Len(raw) - 1) :
         (IsAssistant(raw[k]) /\ IsAssistant(raw[k + 1])) => GroupedByRequest(k)

\* C4, amended: N consecutive assistant records with non-empty content that
\* share one non-empty correlation id are grouped into exactly one assistant
\* turn, and an assistant record with non-empty content whose correlation id
\* differs from the pending group's closes that group and starts a new turn.
C4_GroupedByRequestId ==
  Grouped =>
    /\ \A k \in DOMAIN raw :
         (IsAssistant(raw[k]) /\ HasContent(raw[k])) => InOneAssistantTurn(raw[k])
    /\ \A k \in 1..(Len(raw) - 1) :
         (/\ IsAssistant(raw[k]) /\ HasContent(raw[k])
          /\ IsAssistant(raw[k + 1]) /\ HasContent(raw[k + 1])) => GroupedByRequest(k)

\* Three assistant records with content, the first two merged under one id and
\* the third split off by another.
C4_Witness ==
  /\ Grouped /\ Len(raw) = 3 /\ Len(turns) = 2
  /\ \A k \in DOMAIN raw : IsAssistant(raw[k]) /\ HasContent(raw[k])
  /\ log[raw[1]].req = "A" /\ log[raw[2]].req = "A" /\ log[raw[3]].req = "B"

\* The user record at place u of raw_records is a turn of its own, and no turn
\* holds assistant records from both sides of it.
SplitsAt(u) ==
  /\ \E t \in DOMAIN turns : turns[t] = [role |-> "user", recs |-> <<raw[u]>>]
  /\ \A a \in 1..(u - 1) : \A b \in (u + 1)..Len(raw) :
       TurnsOf(raw[a]) \cap TurnsOf(raw[b]) = {}

\* C5, as stated, in what it concludes: no turn holds two assistant records
\* that have a user record of the filtered sequence between them.
C5_AsStated ==
  Grouped =>
    \A u \in DOMAIN raw : IsUser(raw[u]) =>
      \A a \in 1..(u - 1) : \A b \in (u + 1)..Len(raw) :
        TurnsOf(raw[a]) \cap TurnsOf(raw[b]) = {}

\* C5, amended: every user record of the filtered sequence that has non-empty
\* content flushes the pending assistant group and starts a new turn, so two
\* assistant records with such a user record between them are never in the same
\* turn, even when they share the same correlation id.
C5_UserRecordSplits ==
  Grouped => \A u \in DOMAIN raw : (IsUser(raw[u]) /\ HasContent(raw[u])) => SplitsAt(u)

\* Two assistant records with content and one correlation id, and a user record
\* with content between them.
C5_Witness ==
  /\ Grouped /\ Len(raw) = 3 /\ Len(turns) = 3
  /\ IsAssistant(raw[1]) /\ IsUser(raw[2]) /\ IsAssistant(raw[3])
  /\ \A k \in DOMAIN raw : HasContent(raw[k])
  /\ log[raw[1]].req = "A" /\ log[raw[3]].req = "A"

(***************************************************************************)
(* C6                                                                      *)
(***************************************************************************)
LogItems == ListItems(log, IndicesFrom(1, Len(log)))
RawItems == ListItems(log, raw)

IsAsk(p) == p.type = "tool_use" /\ p.name = "AskUserQuestion"

Least(S) == CHOOSE x \in S : \A y \in S : x <= y
Greatest(S) == CHOOSE x \in S : \A y \in S : y <= x

\* The places, among the parts `items`, of the tool-results addressed to `id`
\* that follow the first AskUserQuestion invocation with that id.
ResultsAfterAsk(items, id) ==
  LET A == {p \in DOMAIN items : IsAsk(items[p][2]) /\ items[p][2].id = id} IN
    IF A = {} THEN {}
    ELSE {p \in DOMAIN items : /\ p > Least(A)
                               /\ items[p][2].type = "tool_result"
                               /\ items[p][2].id = id}

RendersNoAnswer(qa) ==
  format_question_answer(qa) = <<"> **Answer:** [No answer recorded]">>

\* C6, as stated: a Q&A block has a non-null answer whenever a tool-result
\* addressed to its invocation follows it (here: among the winning-path
\* records), and renders the marker whenever none does.
C6_AsStated ==
  Parsed =>
    \A k \in DOMAIN messages : \A q \in DOMAIN messages[k].question_answers :
      LET qa == messages[k].question_answers[q] IN
        IF ResultsAfterAsk(RawItems, qa.id) # {}
        THEN ~qa.answer.null
        ELSE RendersNoAnswer(qa)

\* A tool-result content that parse_ask_answer reads an answer from: answered
\* questions with at least one "key"="value" pair, or a declined or
\* to-be-clarified question.
Recognised(res) ==
  res.isText /\ ((res.hdr /\ res.pairs # <<>>) \/ res.declined)

\* C6, amended: the answer of a Q&A block is the one parsed from the last
\* tool-result that is addressed to the invocation's id and follows the (first)
\* invocation of that id among the winning-path records; it is non-null exactly
\* when that result is recognised by parse_ask_answer. The block renders the
\* "[No answer recorded]" marker when no such result appears, and also when
\* the parsed answer is null or empty.
C6_AnswerOfLastResult ==
  Parsed =>
    \A k \in DOMAIN messages : \A q \in DOMAIN messages[k].question_answers :
      LET qa == messages[k].question_answers[q]
          R == ResultsAfterAsk(RawItems, qa.id)
      IN /\ R = {} => qa.answer.null
         /\ R # {} =>
              /\ qa.answer.null <=> ~Recognised(RawItems[Greatest(R)][2].res)
              /\ ~qa.answer.null => qa.answer.src = RawItems[Greatest(R)][1]
         /\ RendersNoAnswer(qa) <=> (qa.answer.null \/ qa.answer.val = <<>>)

\* One question answered by a recognised result, and one whose only result is
\* not recognised.
C6_Witness ==
  /\ Parsed
  /\ \E k \in DOMAIN messages : \E q \in DOMAIN messages[k].question_answers :
       LET qa == messages[k].question_answers[q] IN
         ~qa.answer.null /\ ~RendersNoAnswer(qa)
  /\ \E k \in DOMAIN messages : \E q \in DOMAIN messages[k].question_answers :
       LET qa == messages[k].question_answers[q] IN
         qa.answer.null /\ ResultsAfterAsk(RawItems, qa.id) # {}

(***************************************************************************)
(* C7                                                                      *)
(***************************************************************************)
AskIdsInLog == {LogItems[p][2].id : p \in {x \in DOMAIN LogItems : IsAsk(LogItems[x][2])}}

\* A user record whose content is nothing but tool-results that answer
\* AskUserQuestion invocations of the log.
OnlyAnswers(i) ==
  /\ log[i].msg = "dict" /\ IsUser(i)
  /\ log[i].content.kind = "list" /\ log[i].content.parts # <<>>
  /\ \A k \in DOMAIN log[i].content.parts :
       /\ log[i].content.parts[k].type = "tool_result"
       /\ log[i].content.parts[k].id \in AskIdsInLog

\* C7: a user record whose content is exclusively tool-results answering
\* interactive-question invocations is no user turn of the result.
C7_AnswerOnlyUserDropped ==
  Parsed =>
    \A i \in Indices(log) : OnlyAnswers(i) =>
      \A k \in DOMAIN messages :
        messages[k].role = "user" => i \notin Sources(messages[k])

\* Such a record was among the records to group, and its answer was used.
C7_Witness ==
  /\ Parsed
  /\ \E i \in Indices(log) :
       /\ OnlyAnswers(i) /\ InRaw(i)
       /\ \E k \in DOMAIN messages : \E q \in DOMAIN messages[k].question_answers :
            messages[k].question_answers[q].answer.src = i

(***************************************************************************)
(* C8                                                                      *)
(***************************************************************************)
\* The Write invocations of record i.
WritesOf(i) ==
  IF log[i].content.kind # "list" THEN {}
  ELSE {log[i].content.parts[k] : k \in
          {x \in DOMAIN log[i].content.parts :
             /\ log[i].content.parts[x].type = "tool_use"
             /\ log[i].content.parts[x].name = "Write"}}

\* Message m holds the content of Write invocation p of record i.
HoldsContent(m, i, p) ==
  \E k \in DOMAIN m.write_contents :
    LET w == m.write_contents[k] IN
      w.src = i /\ w.id = p.id /\ w.chars = p.chars /\ w.nl = p.nl

HoldsAnnotation(m, i) ==
  \E k \in DOMAIN m.tool_annotations :
    m.tool_annotations[k].src = i /\ m.tool_annotations[k].prefix = "Wrote: "

\* C8: the content of a Write invocation is captured if and only if it is not
\* empty and has at most 200 lines (newlines + 1); the annotation is there
\* either way.
C8_CaptureThreshold ==
  Parsed =>
    \A k \in DOMAIN messages :
      \A r \in DOMAIN messages[k].recs :
        LET i == messages[k].recs[r] IN
          messages[k].role = "assistant" =>
            \A p \in WritesOf(i) :
              /\ HoldsAnnotation(messages[k], i)
              /\ HoldsContent(messages[k], i, p) <=> (p.chars > 0 /\ p.nl + 1 <= 200)

\* One turn with a Write of 200 lines, captured, and a Write of 201 lines.
C8_Witness ==
  /\ Parsed
  /\ \E k \in DOMAIN messages :
       /\ \E w \in DOMAIN messages[k].write_contents :
            messages[k].write_contents[w].line_count = 200
       /\ \E r \in DOMAIN messages[k].recs :
            \E p \in WritesOf(messages[k].recs[r]) : p.nl + 1 = 201

(***************************************************************************)
(* C9                                                                      *)
(***************************************************************************)
\* C9: a record whose message is null or absent, or that is meta, is dropped:
\* parse_conversation completes normally, and the record is not in raw_records
\* and no message draws on it.
C9_AsStated ==
  AfterParse =>
    /\ pc # "raised"
    /\ \A i \in Indices(log) :
         (log[i].msg \in {"null", "absent"} \/ log[i].meta) =>
           /\ ~InRaw(i)
           /\ \A k \in DOMAIN messages : i \notin Sources(messages[k])

(***************************************************************************)
(* C10                                                                     *)
(***************************************************************************)
Markers == {"<command-name>", "<local-command-stdout>", "[Request interrupted"}

\* Empty after trimming, or starting with a boilerplate marker.
Insignificant(text) ==
  LET W == {k \in DOMAIN text : text[k] \notin Whitespace} IN
    W = {} \/ text[Least(W)] \in Markers

LegacyParsed == pc \in {"legacy_parsed", "legacy_searched"}

\* What C10 says of the legacy script, where it holds as it is stated.
LegacySignificant ==
  LegacyParsed =>
    /\ \A k \in DOMAIN legacy : ~Insignificant(legacy[k].text)
    /\ pc = "legacy_searched" =>
         \A k \in matches :
           /\ Contains(legacy[k].text, keyword)
           /\ ~Insignificant(legacy[k].text)

\* C10, as stated: no message has an insignificant text, and no keyword match
\* is in one, in either script.
C10_AsStated ==
  /\ LegacySignificant
  /\ Parsed =>
       /\ \A k \in DOMAIN messages : ~Insignificant(messages[k].text)
       /\ pc = "searched" => \A k \in matches : ~Insignificant(messages[k].text)

Enriched(m) == m.tool_annotations # <<>> \/ m.question_answers # <<>>

\* C10, amended: in find_conversations.py, insignificant text is never the text
\* of a user turn, nor of an assistant turn that carries no tool annotation and
\* no Q&A block, and a keyword match in an insignificant text is in an assistant
\* turn that carries one; in the legacy find-conversations.py, insignificant
\* text is never the text of a turn and never produces a keyword match.
C10_InsignificantOnlyEnriched ==
  /\ LegacySignificant
  /\ Parsed =>
       /\ \A k \in DOMAIN messages :
            Insignificant(messages[k].text) =>
              messages[k].role = "assistant" /\ Enriched(messages[k])
       /\ pc = "searched" =>
            \A k \in matches :
              /\ Contains(messages[k].text, keyword)
              /\ Insignificant(messages[k].text) =>
                   messages[k].role = "assistant" /\ Enriched(messages[k])

\* A search with a match, over a conversation one of whose user records had a
\* boilerplate text and one of whose assistant records had only such text.
C10_Witness ==
  /\ pc = "searched" /\ matches # {}
  /\ \E k \in DOMAIN raw :
       /\ IsUser(raw[k]) /\ HasContent(raw[k])
       /\ Insignificant(UserText(log[raw[k]].content))
  /\ \E k \in DOMAIN raw :
       /\ IsAssistant(raw[k]) /\ log[raw[k]].content.kind = "str"
       /\ log[raw[k]].content.text # <<>>
       /\ Insignificant(log[raw[k]].content.text)

(***************************************************************************)
(* C11                                                                     *)
(***************************************************************************)
\* export_conversation has gone past parse_conversation with a conversation.
Rendering == pc \in {"exported", "export_raised"}

\* The last-activity timestamp is not one that can be parsed.
Unparseable == scalars.last_timestamp \notin Timestamps

DateLines == {k \in DOMAIN document.lines : document.lines[k].kind = "date"}

\* C11, as stated: whenever the last-activity timestamp cannot be parsed, the
\* export aborts and writes no document, with or without an output path.
C11_AsStated ==
  (Rendering /\ Unparseable) => (pc = "export_raised" /\ ~document.written)

\* C11, amended: called without an output path, export_conversation aborts and
\* writes no document whenever the last-activity timestamp cannot be parsed;
\* called with an output path it does not parse the timestamp: it writes the
\* document under that path, with the timestamp as it is in the header. It
\* aborts in no other case.
C11_FailsFastWithoutOutputPath ==
  Rendering =>
    /\ (Unparseable /\ output_path = "") =>
         (pc = "export_raised" /\ ~document.written /\ printed = <<>>)
    /\ (Unparseable /\ output_path # "") =>
         /\ pc = "exported" /\ document.written /\ document.named = output_path
         /\ DateLines # {}
         /\ \A k \in DateLines : document.lines[k].ts = scalars.last_timestamp
    /\ ~Unparseable => (pc = "exported" /\ document.written)

\* An export without an output path of a conversation whose last record has a
\* timestamp that cannot be parsed.
C11_Witness ==
  /\ Rendering /\ Unparseable /\ output_path = ""
  /\ messages # <<>>

(***************************************************************************)
(* C12                                                                     *)
(***************************************************************************)
\* export_conversation has looked for the file.
Selected == command = "export" /\ pc # "select"

IsPrefix(p, t) == Len(p) <= Len(t) /\ \A k \in 1..Len(p) : t[k] = p[k]

\* Log L of the listing is the one that is exported.
Selects(L) == conv_file = dir[L] /\ pc \notin {"not_found", "ambiguous"}

\* C12, as stated: among logs with ids of their own, log L is selected whenever
\* the id asked for is L's id, or is a prefix of L's id and of no other log's id.
C12_AsStated ==
  (Selected /\ \A i, j \in DOMAIN dir : dir[i] = dir[j] => i = j) =>
    \A L \in DOMAIN dir :
      (\/ dir[L] = session_id
       \/ /\ IsPrefix(session_id, dir[L])
          /\ \A j \in DOMAIN dir \ {L} : ~IsPrefix(session_id, dir[j]))
        => Selects(L)

(***************************************************************************)
(* C13                                                                     *)
(***************************************************************************)
IsAgentFile(stem) == IsPrefix(AgentPrefix, stem)

\* The logs whose id the id asked for is a prefix of.
Candidates == {L \in DOMAIN dir : IsPrefix(session_id, dir[L])}

\* The ids of the logs of S, in listing order.
RECURSIVE IdsFrom(_, _)
IdsFrom(S, k) ==
  IF k > Len(dir) THEN <<>>
  ELSE (IF k \in S THEN <<dir[k]>> ELSE <<>>) \o IdsFrom(S, k + 1)

\* Nothing was read, parsed or written.
NoAction == file = <<>> /\ log = <<>> /\ messages = <<>> /\ ~document.written

\* C13, as stated: an id that is a prefix of more than one log id has every
\* matching id reported, an id that matches no log id is reported as not found,
\* and in both cases no log is parsed and no document is written.
C13_AsStated ==
  Selected =>
    /\ Cardinality(Candidates) > 1 =>
         /\ pc = "ambiguous" /\ NoAction
         /\ printed = << [kind |-> "ambiguous", ids |-> IdsFrom(Candidates, 1)] >>
    /\ Candidates = {} =>
         /\ pc = "not_found" /\ NoAction
         /\ printed = << [kind |-> "not found", ids |-> <<session_id>>] >>

\* The candidates that are not agent files.
Conversations == {L \in Candidates : ~IsAgentFile(dir[L])}

\* C13, amended: files whose name starts with "agent-" are never looked at.
\* When the id asked for is a prefix of the ids of more than one other log,
\* the ids of all of these are reported, in listing order; when it is a prefix
\* of the id of none, that is reported; in both cases export_conversation
\* returns without reading or parsing a log and without writing a document.
C13_AmbiguousOrMissing ==
  Selected =>
    /\ Cardinality(Conversations) > 1 =>
         /\ pc = "ambiguous" /\ NoAction
         /\ printed = << [kind |-> "ambiguous", ids |-> IdsFrom(Conversations, 1)] >>
    /\ Conversations = {} =>
         /\ pc = "not_found" /\ NoAction
         /\ printed = << [kind |-> "not found", ids |-> <<session_id>>] >>

\* Two logs and an agent file match the id asked for.
C13_Witness ==
  /\ Selected
  /\ Cardinality(Conversations) = 2
  /\ Candidates \ Conversations # {}

(***************************************************************************)
(* C14                                                                     *)
(***************************************************************************)
\* C14, as stated: the walk over the parent links always ends.
C14_AsStated == (pc = "walk") ~> (pc # "walk")

(***************************************************************************)
(* C15                                                                     *)
(***************************************************************************)
\* The records that carry a session id that is not empty.
WithSessionId == {i \in Indices(log) : log[i].sid \notin {"absent", ""}}

\* C15, as stated: the session id that parse_conversation reports is the last
\* non-empty one among the records, whatever session ids later records carry.
C15_AsStated ==
  (Parsed /\ WithSessionId # {}) =>
    conv_session_id(scalars.session_id) = log[Greatest(WithSessionId)].sid

(***************************************************************************)
(* C16                                                                     *)
(***************************************************************************)
\* The loader has read the file.
Loaded == pc \notin {"select", "not_found", "ambiguous", "load"}

\* The lines of the file that json.loads accepts, in file order.
Deserialized ==
  LET Accepted(l) == l.json # "malformed" IN SelectSeq(file, Accepted)

\* C16, as stated: the loader skips the lines that fail to deserialize and
\* keeps exactly the lines that deserialize, in file order.
C16_AsStated == Loaded => log = Deserialized

(***************************************************************************)
(* C17                                                                     *)
(***************************************************************************)
\* The tool invocations among the parts of the records `recs`.
ToolUsesOf(recs) ==
  LET items == FlatItems(log, recs) IN
    {p \in DOMAIN items : items[p][2].type = "tool_use"}

\* The lines of the document of one kind that render message k.
LinesOf(kind, k) ==
  {j \in DOMAIN document.lines :
     document.lines[j].kind = kind /\ document.lines[j].msg = k}

\* The log is one user turn and one assistant turn, the latter one record with
\* one tool invocation that is not a question, and no text.
ToolOnlyScenario ==
  /\ Len(turns) = 2
  /\ \E u, a \in DOMAIN turns :
       /\ turns[u].role = "user" /\ turns[a].role = "assistant"
       /\ Len(turns[a].recs) = 1
       /\ LET c == log[turns[a].recs[1]].content IN
            /\ c.kind = "list" /\ Len(c.parts) = 1
            /\ c.parts[1].type = "tool_use" /\ ~IsAsk(c.parts[1])

AssistantMessages == {k \in DOMAIN messages : messages[k].role = "assistant"}

\* C17: an assistant turn with a tool invocation, each of which gives a tool
\* annotation or a Q&A block, is a message of the result even when its text is
\* empty. In the scenario of one user turn and one assistant turn with a single
\* tool invocation and no text, there is exactly one assistant message, with
\* empty text and one annotation. The document has no "Assistant:" line for a
\* message without visible text, and one annotation line per annotation.
C17_ToolOnlyTurnRetained ==
  /\ Parsed =>
       /\ \A t \in DOMAIN turns :
            (turns[t].role = "assistant" /\ ToolUsesOf(turns[t].recs) # {}) =>
              \E k \in AssistantMessages :
                /\ messages[k].recs = turns[t].recs
                /\ Enriched(messages[k])
       /\ ToolOnlyScenario =>
            /\ Cardinality(AssistantMessages) = 1
            /\ \A k \in AssistantMessages :
                 /\ messages[k].text = <<>>
                 /\ Len(messages[k].tool_annotations) = 1
                 /\ messages[k].question_answers = <<>>
  /\ pc = "exported" =>
       \A k \in AssistantMessages :
         /\ strip(messages[k].text) = <<>> =>
              LinesOf("label", k) = {} /\ LinesOf("text", k) = {}
         /\ Cardinality(LinesOf("annotation", k)) = Len(messages[k].tool_annotations)
         /\ \A j \in LinesOf("annotation", k) :
              LET ann == messages[k].tool_annotations[document.lines[j].item] IN
                document.lines[j].text = <<ann.prefix>> \o ann.arg

\* The scenario, exported: the assistant message has no text line and has its
\* annotation line.
C17_Witness ==
  /\ pc = "exported" /\ ToolOnlyScenario
  /\ \E k \in AssistantMessages :
       /\ messages[k].text = <<>>
       /\ LinesOf("label", k) = {}
       /\ Cardinality(LinesOf("annotation", k)) = 1

(***************************************************************************)
(* C18                                                                     *)
(***************************************************************************)
UserMessages == {k \in DOMAIN messages : messages[k].role = "user"}

\* The number of user messages among the first k messages.
UserRank(k) == Cardinality({j \in UserMessages : j <= k})

KindLines(kind) == {j \in DOMAIN document.lines : document.lines[j].kind = kind}

\* C18: the table of contents has one entry per user turn, numbered 1..k in
\* turn order; entry i links to anchor user-i; the body has exactly one heading
\* with anchor user-i, the heading of the i-th user turn; the entries come
\* before the headings, in the same order.
C18_TocMatchesAnchors ==
  pc = "exported" =>
    LET L == document.lines IN
      /\ Cardinality(KindLines("toc")) = Cardinality(UserMessages)
      /\ Cardinality(KindLines("heading")) = Cardinality(UserMessages)
      /\ \A k \in UserMessages :
           /\ \E j \in KindLines("toc") :
                /\ L[j].msg = k /\ L[j].n = UserRank(k) /\ L[j].anchor = UserRank(k)
                /\ Cardinality({i \in KindLines("toc") : i < j}) = UserRank(k) - 1
           /\ \E j \in KindLines("heading") :
                /\ L[j].msg = k /\ L[j].n = UserRank(k) /\ L[j].anchor = UserRank(k)
                /\ \A i \in KindLines("heading") : L[i].anchor = L[j].anchor => i = j
                /\ j + 1 \in LinesOf("text", k) /\ L[j + 1].text = messages[k].text
      /\ \A j \in KindLines("toc") :
           /\ \E i \in KindLines("heading") : L[i].anchor = L[j].anchor
           /\ \A i \in KindLines("heading") : j < i

\* A document of two user turns with an assistant turn between them.
C18_Witness ==
  /\ pc = "exported"
  /\ \E a, b, c \in DOMAIN messages :
       /\ a < b /\ b < c
       /\ a \in UserMessages /\ b \in AssistantMessages /\ c \in UserMessages

(***************************************************************************)
(* C19                                                                     *)
(***************************************************************************)
\* No record carries an id, or every id is named as the parent of a record.
NoPath == TerminalRecords = {}

\* C19: when no record carries an id, or there is no terminal, find_winning_path
\* returns no path and parse_conversation keeps every record that has a message
\* and is not meta, with or without an id.
C19_NoPathKeepsAll ==
  (AfterParse /\ NoPath) =>
    /\ ~found /\ winning = {}
    /\ \A i \in Indices(log) : InRaw(i) <=> (log[i].msg # "absent" /\ ~log[i].meta)
    /\ \A j, k \in DOMAIN raw : j < k => raw[j] < raw[k]

\* Every id is the parent of some record, and a record with an id and a
\* record without one were both kept.
C19_Witness ==
  /\ AfterParse /\ NoPath
  /\ \E i \in Indices(log) : log[i].uuid # None /\ InRaw(i)
  /\ \E i \in Indices(log) : log[i].uuid = None /\ InRaw(i)

(***************************************************************************)
(* C20                                                                     *)
(***************************************************************************)
\* The text parts of the records `recs` that are not blank, in encounter order.
VisibleTexts(recs) ==
  LET Visible(it) == it[2].type = "text" /\ strip(it[2].text) # <<>>
  IN SelectSeq(FlatItems(log, recs), Visible)

\* The tool invocations of the records `recs` that get an annotation.
Annotated(recs) ==
  LET Noted(it) == it[2].type = "tool_use" /\ ~IsAsk(it[2])
  IN SelectSeq(FlatItems(log, recs), Noted)

\* C20: the messages are in log order: every record of a message precedes
\* every record of the messages after it, and the records of a message are in
\* log order; the text of an assistant message is made of the text parts of
\* its records in encounter order, and its annotations are those of its tool
\* invocations in encounter order.
C20_TurnsInLogOrder ==
  Parsed =>
    /\ \A k, l \in DOMAIN messages :
         k < l => \A a \in DOMAIN messages[k].recs, b \in DOMAIN messages[l].recs :
                    messages[k].recs[a] < messages[l].recs[b]
    /\ \A k \in DOMAIN messages :
         \A a, b \in DOMAIN messages[k].recs :
           a < b => messages[k].recs[a] < messages[k].recs[b]
    /\ \A k \in AssistantMessages :
         LET m == messages[k]
             vt == VisibleTexts(m.recs)
             an == Annotated(m.recs)
         IN /\ m.text = JoinNN([j \in DOMAIN vt |-> vt[j][2].text])
            /\ m.textSrc = [j \in DOMAIN vt |-> vt[j][1]]
            /\ Len(m.tool_annotations) = Len(an)
            /\ \A j \in DOMAIN an :
                 m.tool_annotations[j] =
                   [generate_tool_annotation(an[j][2]) EXCEPT !.src = an[j][1]]

\* A message after another, the later one an assistant turn merged from two
\* records that each hold a text and a tool invocation.
C20_Witness ==
  /\ Parsed
  /\ \E k \in AssistantMessages :
       /\ k > 1
       /\ Len(messages[k].recs) >= 2
       /\ Len(messages[k].textSrc) >= 2
       /\ \E a, b \in DOMAIN messages[k].tool_annotations :
            messages[k].tool_annotations[a].src < messages[k].tool_annotations[b].src

(***************************************************************************)
(* C21                                                                     *)
(***************************************************************************)
\* The walk has started and a record above the chosen terminal names a parent
\* id that no record carries.
Dangles == latest # 0 /\ DanglingIds(latest) # {}

\* find_winning_path has returned.
Walked == pc = "parse" \/ AfterParse

\* C21: when a record on the walk names a parent id that no record carries,
\* find_winning_path raises no error and returns a path: the ids of the records
\* from the chosen terminal up to the record with the dangling reference, with
\* the dangling id itself and nothing else.
C21_DanglingParentStopsWalk ==
  Dangles =>
    /\ pc # "path_raised"
    /\ Walked =>
         /\ found
         /\ ChainIds(latest) \subseteq winning
         /\ winning = ChainIds(latest) \cup DanglingIds(latest)

\* A walk over two records that ended at a dangling parent reference.
C21_Witness ==
  /\ Dangles /\ Walked /\ found
  /\ Cardinality(ChainRecords(latest)) >= 2
  /\ \E i \in Indices(log) : log[i].uuid # None /\ log[i].uuid \notin winning

(***************************************************************************)
(* C22                                                                     *)
(***************************************************************************)
\* The tool names generate_tool_annotation has a line of its own for.
KnownTools ==
  {"Read", "Write", "Edit", "WebSearch", "WebFetch", "Task", "Bash", "Glob",
   "Grep", "EnterPlanMode", "ExitPlanMode", "AskUserQuestion"}

\* The places of the AskUserQuestion invocations among the parts of `recs`.
AsksOf(recs) ==
  LET items == FlatItems(log, recs) IN {p \in DOMAIN items : IsAsk(items[p][2])}

\* The number of places of S up to p.
RankIn(S, p) == Cardinality({q \in S : q <= p})

\* C22: in every assistant turn, each AskUserQuestion invocation gives one Q&A
\* block and no annotation, and every other tool invocation gives one
\* annotation and no Q&A block, an unrecognized tool name giving the line
\* "Used tool: <name>"; annotations plus Q&A blocks are as many as invocations.
C22_OneItemPerInvocation ==
  Parsed =>
    \A k \in AssistantMessages :
      LET m == messages[k]
          items == FlatItems(log, m.recs)
          asks == AsksOf(m.recs)
          others == ToolUsesOf(m.recs) \ asks
      IN /\ Len(m.tool_annotations) = Cardinality(others)
         /\ Len(m.question_answers) = Cardinality(asks)
         /\ Len(m.tool_annotations) + Len(m.question_answers)
              = Cardinality(ToolUsesOf(m.recs))
         /\ \A p \in others :
              LET ann == m.tool_annotations[RankIn(others, p)] IN
                /\ ann.src = items[p][1]
                /\ ann.prefix # ""
                /\ items[p][2].name \notin KnownTools =>
                     ann.prefix = "Used tool: " /\ ann.arg = <<items[p][2].name>>
         /\ \A p \in asks :
              LET qa == m.question_answers[RankIn(asks, p)] IN
                qa.src = items[p][1] /\ qa.id = items[p][2].id

\* A turn with an invocation of an unrecognized tool among several invocations.
C22_Witness ==
  /\ Parsed
  /\ \E k \in AssistantMessages :
       /\ Len(messages[k].tool_annotations) >= 2
       /\ \E a \in DOMAIN messages[k].tool_annotations :
            messages[k].tool_annotations[a].prefix = "Used tool: "

(***************************************************************************)
(* C23                                                                     *)
(***************************************************************************)
\* The file content blocks that follow annotation j of message k.
BlocksOf(k, j) ==
  {d \in LinesOf("details", k) : document.lines[d].item = j}

\* The block of line d holds the content of Write invocation `part` of record i.
BlockOf(d, i, part) ==
  LET wc == document.lines[d].wc IN
    /\ wc.src = i /\ wc.id = part.id
    /\ wc.chars = part.chars /\ wc.nl = part.nl

\* C23, as stated: in the document, the annotation of a Write invocation whose
\* content was captured is followed by one block with the content of that same
\* invocation, and the annotation of a Write invocation whose content was not
\* captured is followed by no block, also when a turn has several Write
\* invocations of the same file path.
C23_AsStated ==
  pc = "exported" =>
    \A k \in AssistantMessages :
      LET m == messages[k]
          items == FlatItems(log, m.recs)
          others == ToolUsesOf(m.recs) \ AsksOf(m.recs)
      IN \A p \in others :
           LET part == items[p][2]
               j == RankIn(others, p)
           IN part.name = "Write" =>
                /\ document.lines[CHOOSE a \in LinesOf("annotation", k) :
                                    document.lines[a].item = j].text
                     = <<"Wrote: ">> \o shorten_path(part.path)
                /\ IF Captured(part)
                   THEN /\ Cardinality(BlocksOf(k, j)) = 1
                        /\ \A d \in BlocksOf(k, j) : BlockOf(d, items[p][1], part)
                   ELSE BlocksOf(k, j) = {}

====
